---- MODULE Spec2Model ----
(***************************************************************************)
(* Model of the ice-experiment analyzer: the environmental log parsers,    *)
(* the nearest-timestamp locators, the mechanical-test reader and the      *)
(* orchestrator IceExperimentAnalyzer (src/src/ice_analyzer).               *)
(*                                                                         *)
(* Time is counted in ticks since 2025-01-01 00:00:00; a second has        *)
(* TicksPerSecond ticks, so that sub-second parts of a timestamp exist and *)
(* the formatting that cuts them off is visible.                           *)
(*                                                                         *)
(* A Python call either returns a value or raises: Return(v) / Raise(e).   *)
(* Sequences are 1-based here where numpy and Python are 0-based.          *)
(*                                                                         *)
(* Five specifications share the variables: SpecStream (one parser call    *)
(* and one locator call), SpecCnv (the same for the density stream alone), *)
(* SpecTest (read_data and _process_test_file on one test file),           *)
(* SpecFolder (process_single_experiment on one folder) and SpecRun (runs  *)
(* of run_analysis over a base directory; FairSpecRun adds that a run      *)
(* which is in its loop goes on).  The variables of the other              *)
(* specifications keep their idle values.                                  *)
(*                                                                         *)
(* main.py line 198 spells the fourth unpacking target `corrected time`;   *)
(* the model reads it as corrected_time, the name line 203 uses.           *)
(***************************************************************************)
EXTENDS Integers, Sequences, FiniteSets, TLC

VARIABLES
    stream,          \* stream-level check: which environmental stream is loaded
    log_files,       \* stream-level check: the files its glob pattern matched, in name order
    ds,              \* stream-level check: what the parser call gave (Return/Raise), or NotCalled
    target_datetime, \* stream-level check: the timestamp handed to the locator
    closest,         \* stream-level check: what the locator call gave, or NotCalled
    test_file,       \* test-file check: the mechanical test file handed to _process_test_file
    env_data,        \* test-file check: the environmental tables of its folder
    read_result,     \* test-file check: what read_data gave, or NotCalled
    max_timestamp,   \* test-file check: the peak-force timestamp it computed, or NoneValue
    row_data,        \* test-file check: what _process_test_file gave, or NotCalled
    info_file,       \* test-file check: the info_<name> file on disk, or NoneValue
    folder_path,     \* folder check: the experiment folder handed to process_single_experiment
    folder_env,      \* folder check: what _load_environmental_data returned, or NotCalled
    df_result,       \* folder check: what process_single_experiment gave, or NotCalled
    folder_files,    \* folder check: the files it wrote into the folder
    experiment_dir,  \* run: the experiment folders of the base directory, by name
    master_csv,      \* run: ALL_EXPERIMENTS_SUMMARY.csv, or NoneValue if there is none
    pc,              \* run: "idle" between runs, "loop" inside run_analysis
    skip_existing,   \* run: the argument of run_analysis
    folders_to_process,  \* run: the sorted folders the loop has still to do
    existing_df,     \* run: the rows loaded from the master summary at run start
    all_results,     \* run: the rows of the tables collected so far
    outcome,         \* run: "saved" or "skipped" for each folder the loop has done
    modes,           \* history: the skip_existing argument of every run started
    selected,        \* history: the sorted folders the run selected
    master_at_start, \* history: ALL_EXPERIMENTS_SUMMARY.csv when the run started
    ended            \* history: how the last run ended

streamVars == <<stream, log_files, ds, target_datetime, closest>>

testVars == <<test_file, env_data, read_result, max_timestamp, row_data, info_file>>

folderVars == <<folder_path, folder_env, df_result, folder_files>>

runVars == <<experiment_dir, master_csv, pc, skip_existing, folders_to_process,
             existing_df, all_results, outcome, modes, selected, master_at_start, ended>>

vars == <<streamVars, testVars, folderVars, runVars>>

----------------------------------------------------------------------------
(* Bounds of the model *)

MaxFiles == 2        \* files matched by one glob pattern
MaxLines == 3        \* lines of the files matched by one glob pattern, all together
MaxMeta == 2         \* metadata lines of a mechanical test file
MaxSamples == 3      \* lines of the data section of a mechanical test file
MaxTests == 2        \* test files of an experiment folder
MaxRuns == 2         \* runs of the orchestrator
TicksPerSecond == 2  \* resolution of the clock
MaxCnvFiles == 2     \* .cnv files, where the density parser is taken alone
MaxCnvLines == 2     \* body lines of those .cnv files, all together

----------------------------------------------------------------------------
(* Python values *)

NoneValue == [tag |-> "None"]
NotCalled == [tag |-> "NotCalled"]
Return(v) == [tag |-> "return", exc |-> "", val |-> v]
Raise(e) == [tag |-> "raise", exc |-> e, val |-> NoneValue]
\* an xarray Dataset and a pandas DataFrame, each by its rows
Dataset(rows) == [tag |-> "Dataset", rows |-> rows]
DataFrame(rows) == [tag |-> "DataFrame", rows |-> rows]
Datetime(t) == [tag |-> "datetime", t |-> t]

Abs(n) == IF n < 0 THEN -n ELSE n

Range(s) == {s[i] : i \in 1..Len(s)}

RECURSIVE Concat(_)
Concat(ss) == IF ss = <<>> THEN <<>> ELSE Head(ss) \o Concat(Tail(ss))

----------------------------------------------------------------------------
(* Clock *)

TicksPerDay == 86400 * TicksPerSecond

\* ticks of <year>-01-01 00:00:00 (pd.to_datetime(f"{year}-01-01 00:00:00"))
YearStart(year) ==
    CASE year = 2024 -> -(366 * TicksPerDay)
      [] year = 2025 -> 0
      [] year = 2026 -> 365 * TicksPerDay

\* ticks of 2025-<month>-<day> 00:00:00 for the months the model uses
DayStart(month, day) ==
    CASE month = 1 -> (day - 1) * TicksPerDay
      [] month = 6 -> (151 + day - 1) * TicksPerDay
      [] month = 7 -> (181 + day - 1) * TicksPerDay

\* 2025-07-27 22:16:00, the time around which the sampled logs lie
T0 == DayStart(7, 27) + (22 * 3600 + 16 * 60) * TicksPerSecond

----------------------------------------------------------------------------
(* CTD-stream parser: sbe_reader.py *)

\* A line of an SBE log: "bad" fails is_valid_datetime; "nodata" has a valid
\* bracketed timestamp but no '#', fewer than 5 fields or a non-float field;
\* "ok" gives a row.  v stands for the value columns (T_deg, Sal, SV).
SbeLine(k, ts, v) == [k |-> k, ts |-> ts, v |-> v]

is_valid_datetime(line) == line.k \in {"nodata", "ok"}

SbeFileRows(file) ==
    LET valid_lines == SelectSeq(file.lines, is_valid_datetime)
        withData == SelectSeq(valid_lines, LAMBDA l : l.k = "ok")
    IN  [i \in 1..Len(withData) |-> [ts |-> withData[i].ts, v |-> withData[i].v]]

\* files: the matched files in sorted name order; open_ok = FALSE: open() raises
read_sbe_data(files) ==
    IF \E i \in 1..Len(files) : ~files[i].open_ok
    THEN Raise("OSError")
    ELSE LET rows == Concat([i \in 1..Len(files) |-> SbeFileRows(files[i])])
         IN  IF rows # <<>> THEN Return(Dataset(rows)) ELSE Return(NoneValue)

----------------------------------------------------------------------------
(* Temperature-stick parser: tstick_reader.py *)

\* A line of a T-stick log: "ok" matches the pattern (timestamp + 16 values),
\* "bad" does not.  v stands for the 16-value profile.
TstickLine(k, ts, v) == [k |-> k, ts |-> ts, v |-> v]

\* fail_after = -1: the file is read to its end; n >= 0: open() or the
\* decoding raises after n lines were delivered, and the file is left
TstickLinesRead(file) ==
    IF file.fail_after = -1
    THEN file.lines
    ELSE SubSeq(file.lines, 1, file.fail_after)

TstickValid(file) ==
    LET kept == SelectSeq(TstickLinesRead(file), LAMBDA l : l.k = "ok")
    IN  [i \in 1..Len(kept) |-> [ts |-> kept[i].ts, v |-> kept[i].v]]

\* data[~data['datetime'].duplicated(keep=False)]: every row whose timestamp
\* occurs more than once is dropped, the first occurrence included
DropAllDuplicated(rows) ==
    SelectSeq(rows, LAMBDA r : Cardinality({i \in 1..Len(rows) : rows[i].ts = r.ts}) = 1)

\* insertion of a row into a list sorted by timestamp
RECURSIVE Insert(_, _)
Insert(r, sorted) ==
    IF sorted = <<>> THEN <<r>>
    ELSE IF r.ts < Head(sorted).ts THEN <<r>> \o sorted
    ELSE <<Head(sorted)>> \o Insert(r, Tail(sorted))

\* data.sort_values(by='datetime', ascending=True)
RECURSIVE SortByDatetime(_)
SortByDatetime(rows) ==
    IF rows = <<>> THEN <<>>
    ELSE Insert(rows[Len(rows)], SortByDatetime(SubSeq(rows, 1, Len(rows) - 1)))

\* ds_tsticks.drop_duplicates(dim='datetime', keep='first')
DropDuplicatesKeepFirst(rows) ==
    LET keep == {i \in 1..Len(rows) : \A j \in 1..(i - 1) : rows[j].ts # rows[i].ts}
        F[i \in 0..Len(rows)] ==
            IF i = 0 THEN <<>>
            ELSE IF i \in keep THEN Append(F[i - 1], rows[i]) ELSE F[i - 1]
    IN  F[Len(rows)]

read_tstick_data(files) ==
    LET valid_data == Concat([i \in 1..Len(files) |-> TstickValid(files[i])])
    IN  IF valid_data = <<>>
        THEN Raise("ValueError")
        ELSE Return(Dataset(DropDuplicatesKeepFirst(
                 SortByDatetime(DropAllDuplicated(valid_data)))))

----------------------------------------------------------------------------
(* Density-probe parser: sbe_w_density_reader.py *)

FallbackYear == 2025

\* A body line of a .cnv file: "ok" has at least 7 numeric fields, "bad" has
\* not.  jul2 is twice the JulianTime field (half-day resolution); v stands
\* for the value columns (Temperature, Salinity, SoundVelocity, Density).
CnvLine(k, jul2, v) == [k |-> k, jul2 |-> jul2, v |-> v]

CnvFileRows(file) ==
    LET kept == SelectSeq(file.lines, LAMBDA l : l.k = "ok")
    IN  [i \in 1..Len(kept) |-> [jul2 |-> kept[i].jul2, v |-> kept[i].v]]

\* the year of the '# start_time = ...' header line (start_dt.year: month
\* and day of the start time are not used), or the fallback
CnvYear(file) ==
    IF file.header.k = "ok" THEN file.header.year ELSE FallbackYear

\* the loop over the files: read is "ok", "decode" (readlines raises
\* UnicodeDecodeError) or "oserror" (open raises); the variable year is
\* assigned anew by every file
RECURSIVE CnvScan(_, _, _)
CnvScan(files, data, year) ==
    IF files = <<>>
    THEN [exc |-> "", data |-> data, year |-> year]
    ELSE LET file == Head(files)
         IN  IF file.read = "oserror"
             THEN [exc |-> "OSError", data |-> data, year |-> year]
             ELSE IF file.read = "decode"
             THEN [exc |-> "UnicodeDecodeError", data |-> data, year |-> year]
             ELSE IF ~file.has_end
             THEN [exc |-> "ValueError", data |-> data, year |-> year]
             ELSE CnvScan(Tail(files), data \o CnvFileRows(file), CnvYear(file))

\* a reconstruction that takes JulianTime 0.0 for the start of the year
JulianFromDayZero(year, jul2) == YearStart(year) + jul2 * (TicksPerDay \div 2)

\* julian_base_time + pd.to_timedelta(df['JulianTime'] - 1, unit='D')
JulianToDatetime(year, jul2) == YearStart(year) + (jul2 - 2) * (TicksPerDay \div 2)

process_sbe37cnv_data(files) ==
    IF files = <<>>
    THEN Raise("FileNotFoundError")
    ELSE LET scan == CnvScan(files, <<>>, FallbackYear)
         IN  IF scan.exc # ""
             THEN Raise(scan.exc)
             ELSE IF scan.data = <<>>
             THEN Raise("IndexError")   \* ds_sbe_pro['datetime'].values[-1]
             ELSE Return(Dataset(
                      [i \in 1..Len(scan.data) |->
                          [ts |-> JulianToDatetime(scan.year, scan.data[i].jul2),
                           v |-> scan.data[i].v]]))

----------------------------------------------------------------------------
(* Nearest-timestamp locators *)

\* np.argmin: a scan that moves to a later index only for a strictly
\* smaller element, so the first index of the smallest element is returned
RECURSIVE ArgMinFrom(_, _, _)
ArgMinFrom(s, i, best) ==
    IF i > Len(s) THEN best
    ELSE ArgMinFrom(s, i + 1, IF s[i] < s[best] THEN i ELSE best)

ArgMin(s) == ArgMinFrom(s, 2, 1)

TimeDiffs(rows, target) == [i \in 1..Len(rows) |-> Abs(rows[i].ts - target)]

\* shared body of the three locators: argmin of an empty array raises ValueError
ClosestRow(dataset, target) ==
    IF dataset.rows = <<>>
    THEN Raise("ValueError")
    ELSE Return(dataset.rows[ArgMin(TimeDiffs(dataset.rows, target))])

find_closest_timestamp(ds_sbe, target) == ClosestRow(ds_sbe, target)

find_closest_density(ds_sbe, target) == ClosestRow(ds_sbe, target)

find_closest_tstick(ds_tsticks, target) ==
    IF ds_tsticks = NoneValue
    THEN Return(NoneValue)
    ELSE ClosestRow(ds_tsticks, target)

----------------------------------------------------------------------------
(* Cells of a DataFrame and their text *)

\* a cell is a string, a number or NaN
Str(s) == [k |-> "str", s |-> s, n |-> 0]
Num(n) == [k |-> "num", s |-> "", n |-> n]
NaN == [k |-> "nan", s |-> "", n |-> 0]

\* pd.Timestamp(ts).strftime("%Y-%m-%d %H:%M:%S.%f")[:-6]: the six digits of
\* the microseconds are cut off, the text ends with the dot after the seconds
FormatTimestamp(ts) == Str("T" \o ToString(ts \div TicksPerSecond) \o ".")

\* ';'.join([f"{temp:.3f}" for temp in tstick_temps])
FormatProfile(v) == Str("P" \o ToString(v))

\* a Python dict as a function on its keys
EmptyDict == <<>>
Get(dict, key, default) == IF key \in DOMAIN dict THEN dict[key] ELSE default
Update(dict, more) ==
    [key \in DOMAIN dict \cup DOMAIN more |->
        IF key \in DOMAIN more THEN more[key] ELSE dict[key]]

\* exception classes: issubclass(exc, class)
IsInstance(exc, class) ==
    \/ exc = class
    \/ class = "Exception"
    \/ exc = "UnicodeDecodeError" /\ class = "ValueError"
    \/ exc = "FileNotFoundError" /\ class = "OSError"

----------------------------------------------------------------------------
(* Mechanical-test parser: dewesoft_reader.py *)

\* A line of a test file (after strip):
\*   "text"      any other text
\*   "start"     'Start time: ' and a timestamp strptime accepts; t is that time
\*   "startbad"  'Start time:' followed by something strptime rejects
\*   "Data1"     the sentinel that opens the data section
\*   "blank"     empty;  "Time" the column header of the data section
\*   "row"       two tab-separated floats: t the offset in ticks, f the force
\*   "badrow"    a data line float() rejects
\*   "corrected" the rewritten start line 'Start time (Corrected, UTC): ...'
TestLine(k, t, f) == [k |-> k, t |-> t, f |-> f]

\* timedelta(hours=1, minutes=44)
CorrectionSeconds == 6240

\* strftime('%m/%d/%Y %H:%M:%S'): the text carries whole seconds
WholeSeconds(t) == (t \div TicksPerSecond) * TicksPerSecond

\* a correction of twice the offset
SubtractTooMuch(original_time) == original_time - 2 * CorrectionSeconds * TicksPerSecond

\* original_time - timedelta(hours=1, minutes=44)
SubtractCorrection(original_time) == original_time - CorrectionSeconds * TicksPerSecond

\* the nested correct_start_time: the first line that starts with 'Start time:'
correct_start_time(metadata) ==
    LET starts == {i \in 1..Len(metadata) : metadata[i].k \in {"start", "startbad"}}
    IN  IF starts = {}
        THEN Return([metadata |-> metadata, corrected_time |-> NoneValue])
        ELSE LET i == CHOOSE x \in starts : \A y \in starts : x <= y
             IN  IF metadata[i].k = "startbad"
                 THEN Raise("ValueError")
                 ELSE LET corrected_time == SubtractCorrection(metadata[i].t)
                      IN  Return([metadata |->
                                      [metadata EXCEPT ![i] =
                                          TestLine("corrected", WholeSeconds(corrected_time), 0)],
                                  corrected_time |-> Datetime(corrected_time)])

\* the loop over the lines: [exc, data_start, metadata, time_vals, force_vals]
RECURSIVE ReadLines(_, _)
ReadLines(lines, st) ==
    IF lines = <<>> \/ st.exc # ""
    THEN st
    ELSE LET line == Head(lines)
             rest == Tail(lines)
         IN  IF line.k = "Data1"
             THEN ReadLines(rest, [st EXCEPT !.data_start = TRUE])
             ELSE IF ~st.data_start
             THEN ReadLines(rest, [st EXCEPT !.metadata = Append(@, line)])
             ELSE IF line.k \in {"blank", "Time"}
             THEN ReadLines(rest, st)
             ELSE IF line.k = "row"
             THEN ReadLines(rest, [st EXCEPT !.time_vals = Append(@, line.t),
                                             !.force_vals = Append(@, line.f)])
             ELSE [st EXCEPT !.exc = "ValueError"]

\* file: [name, open_ok, lines]
read_data(file) ==
    IF ~file.open_ok
    THEN Raise("OSError")
    ELSE LET st == ReadLines(file.lines,
                       [exc |-> "", data_start |-> FALSE, metadata |-> <<>>,
                        time_vals |-> <<>>, force_vals |-> <<>>])
         IN  IF st.exc # ""
             THEN Raise(st.exc)
             ELSE LET c == correct_start_time(st.metadata)
                  IN  IF c.tag = "raise"
                      THEN c
                      ELSE Return([meta |-> c.val.metadata,
                                   time_data |-> st.time_vals,
                                   force_data |-> st.force_vals,
                                   corrected_time |-> c.val.corrected_time])

----------------------------------------------------------------------------
(* Orchestrator, one test file: main.py _process_test_file *)

\* np.argmax: a scan that moves to a later index only for a strictly larger
\* element, so the first index of the largest element is returned
RECURSIVE ArgMaxFrom(_, _, _)
ArgMaxFrom(s, i, best) ==
    IF i > Len(s) THEN best
    ELSE ArgMaxFrom(s, i + 1, IF s[i] > s[best] THEN i ELSE best)

\* the first index of the element of largest magnitude
ArgMaxAbs(s) == ArgMaxFrom([i \in 1..Len(s) |-> Abs(s[i])], 2, 1)

ArgMax(s) == ArgMaxFrom(s, 2, 1)

\* bool(x) of None or of an xarray Dataset (a Dataset with data variables is true)
Truthy(x) == x # NoneValue

\* env: dict with the keys ds_sbe, ds_tsticks, ds_density.  The three blocks
\* run in this order; the first locator that raises ends the call.
find_closest_measurements(timestamp, env) ==
    LET Collect(sbe, density, tstick) ==
            LET d1 == IF sbe = NotCalled THEN EmptyDict
                      ELSE [key \in {"sbe_time", "sbe_T"} |->
                               IF key = "sbe_time" THEN FormatTimestamp(sbe.val.ts)
                               ELSE Num(sbe.val.v)]
                d2 == IF density = NotCalled THEN d1
                      ELSE Update(d1, [key \in {"ctd_time", "ctd_T"} |->
                               IF key = "ctd_time" THEN FormatTimestamp(density.val.ts)
                               ELSE Num(density.val.v)])
                d3 == IF tstick = NotCalled \/ tstick.val = NoneValue THEN d2
                      ELSE Update(d2, [key \in {"tstick_time", "tstick_profile"} |->
                               IF key = "tstick_time" THEN FormatTimestamp(tstick.val.ts)
                               ELSE FormatProfile(tstick.val.v)])
            IN  IF sbe # NotCalled /\ sbe.tag = "raise" THEN sbe
                ELSE IF density # NotCalled /\ density.tag = "raise" THEN density
                ELSE IF tstick # NotCalled /\ tstick.tag = "raise" THEN tstick
                ELSE Return(d3)
    IN  Collect(IF Truthy(Get(env, "ds_sbe", NoneValue))
                THEN find_closest_timestamp(env["ds_sbe"], timestamp)
                ELSE NotCalled,
                IF Truthy(Get(env, "ds_density", NoneValue))
                THEN find_closest_density(env["ds_density"], timestamp)
                ELSE NotCalled,
                IF Truthy(Get(env, "ds_tsticks", NoneValue))
                THEN find_closest_tstick(env["ds_tsticks"], timestamp)
                ELSE NotCalled)

\* _create_info_file: the text is formatted before the file is opened; the
\* format code of a number applied to the default 'N/A' raises ValueError.
\* (ctd_S, ctd_SV and ctd_rho are formatted like ctd_T, from the same record.)
create_info_file(file, peak_timestamp, closest_data) ==
    IF Get(closest_data, "ctd_T", Str("N/A")).k = "str"
    THEN Raise("ValueError")
    ELSE Return([name |-> "info_" \o file.name,
                 max_force_timestamp |-> FormatTimestamp(peak_timestamp),
                 ctd_time |-> Get(closest_data, "ctd_time", Str("N/A")),
                 ctd_T |-> Get(closest_data, "ctd_T", Str("N/A")),
                 tstick_time |-> Get(closest_data, "tstick_time", Str("N/A")),
                 tstick_profile |-> Get(closest_data, "tstick_profile", Str("N/A"))])

\* the dict of line 217 (ctd_S, ctd_SV, ctd_rho are filled like ctd_T)
RowData(file, peak_timestamp, closest_data) ==
    [measurement_file |-> Str(file.name),
     Experiment_PeakTime |-> FormatTimestamp(peak_timestamp),
     ctd_time |-> Get(closest_data, "ctd_time", Str("N/A")),
     ctd_T |-> Get(closest_data, "ctd_T", NaN),
     tstick_time |-> Get(closest_data, "tstick_time", Str("N/A")),
     tstick_profile |-> Get(closest_data, "tstick_profile", Str("N/A")),
     caution |-> Str("")]

\* the peak-force timestamp of lines 201-208, or the exception they raise:
\* None + timedelta raises TypeError, argmax of an empty array ValueError
MaxTimestamp(read) ==
    IF read.corrected_time = NoneValue /\ read.time_data # <<>>
    THEN Raise("TypeError")
    ELSE IF read.force_data = <<>>
    THEN Raise("ValueError")
    ELSE Return(read.corrected_time.t + read.time_data[ArgMax(read.force_data)])

\* [row, info, peak]: the returned dict or None, the info file written or
\* None, and max_timestamp if line 208 was reached; every exception is caught
\* and gives the return value None
process_test_file(file, env) ==
    LET failed(peak) == [row |-> NoneValue, info |-> NoneValue, peak |-> peak]
        Written(peak, found, info) ==
            IF info.tag = "raise" THEN failed(Datetime(peak))
            ELSE [row |-> RowData(file, peak, found), info |-> info.val,
                  peak |-> Datetime(peak)]
        Located(peak, found) ==
            IF found.tag = "raise" THEN failed(Datetime(peak))
            ELSE Written(peak, found.val, create_info_file(file, peak, found.val))
        AtPeak(peak) ==
            IF peak.tag = "raise" THEN failed(NoneValue)
            ELSE Located(peak.val, find_closest_measurements(peak.val, env))
        AfterRead(read) ==
            IF read.tag = "raise" THEN failed(NoneValue)
            ELSE AtPeak(MaxTimestamp(read.val))
    IN  AfterRead(read_data(file))

----------------------------------------------------------------------------
(* Orchestrator, the tables of one folder: main.py _load_environmental_data *)

\* folder: [sbe_files, tstick_files, cnv_files, tests].  An exception that no
\* inner handler names reaches the outer handler, which returns {}.
load_environmental_data(folder) ==
    LET Loaded(sbe, tstick, density) ==
            LET tstick_caught ==
                    tstick.tag = "raise" /\ IsInstance(tstick.exc, "ValueError")
                density_caught ==
                    /\ density.tag = "raise"
                    /\ \/ IsInstance(density.exc, "FileNotFoundError")
                       \/ IsInstance(density.exc, "ValueError")
            IN  IF sbe.tag = "raise" THEN EmptyDict
                ELSE IF tstick.tag = "raise" /\ ~tstick_caught THEN EmptyDict
                ELSE IF density.tag = "raise" /\ ~density_caught THEN EmptyDict
                ELSE [key \in {"ds_sbe", "ds_tsticks", "ds_density"} |->
                         CASE key = "ds_sbe" -> sbe.val
                           [] key = "ds_tsticks" -> tstick.val
                           [] key = "ds_density" -> density.val]
    IN  Loaded(read_sbe_data(folder.sbe_files),
               read_tstick_data(folder.tstick_files),
               process_sbe37cnv_data(folder.cnv_files))

----------------------------------------------------------------------------
(* Orchestrator, one folder: main.py process_single_experiment *)

\* the loop of lines 138-143 over the sorted test files: the rows of the
\* files that gave one, each with its folder name, and the info files written
RECURSIVE ProcessTestFiles(_, _, _, _)
ProcessTestFiles(test_files, env, name, acc) ==
    IF test_files = <<>>
    THEN acc
    ELSE ProcessTestFiles(
             Tail(test_files), env, name,
             LET one == process_test_file(Head(test_files), env)
             IN  [df_rows |-> acc.df_rows \o
                                  (IF one.row = NoneValue THEN <<>>
                                   ELSE <<Update(one.row,
                                                 [experiment_folder |-> Str(name)])>>),
                  infos |-> acc.infos \o
                                (IF one.info = NoneValue THEN <<>> ELSE <<one.info>>)])

\* a pass that writes and returns the table whether or not it has a row
SaveAnyRows(env, done) ==
    [df |-> DataFrame(done.df_rows), env |-> env, stage |-> "Saved",
     infos |-> done.infos, summary |-> DataFrame(done.df_rows)]

\* lines 145-148: with at least one row the table is written to
\* experiment_summary.csv and returned; without, the function ends and
\* returns None
SaveRows(env, done) ==
    IF done.df_rows = <<>>
    THEN [df |-> NoneValue, env |-> env, stage |-> "TestFilesFound",
          infos |-> done.infos, summary |-> NoneValue]
    ELSE [df |-> DataFrame(done.df_rows), env |-> env, stage |-> "Saved",
          infos |-> done.infos, summary |-> DataFrame(done.df_rows)]

\* [df, env, stage, infos, summary]: the returned DataFrame (its rows) or
\* None, the tables loaded, how far the pass came, the info files written and
\* the rows of experiment_summary.csv if it was written.  f: the folder.
process_single_experiment(f, name) ==
    LET Pass(env) ==
            IF env = EmptyDict
            THEN [df |-> NoneValue, env |-> env, stage |-> "Discovered",
                  infos |-> <<>>, summary |-> NoneValue]
            ELSE IF f.tests = <<>>
            THEN [df |-> NoneValue, env |-> env, stage |-> "EnvironmentLoaded",
                  infos |-> <<>>, summary |-> NoneValue]
            ELSE SaveRows(env, ProcessTestFiles(f.tests, env, name,
                                                [df_rows |-> <<>>, infos |-> <<>>]))
    IN  Pass(load_environmental_data(f))

----------------------------------------------------------------------------
(* Inputs of the stream-level specification *)

\* offsets (ticks) of the logged timestamps from T0, and the locator targets
LineOffsets == {-1, 1, 3}
Targets == {T0, T0 + 1, T0 + 2}

\* twice the JulianTime of the sampled .cnv body lines (1.0, 1.5, 2.0),
\* and the locator targets 2025-01-01 12:00 and 2025-01-02 00:00; the
\* start_time headers drawn are <year>-06-01
JulianTimes2 == {2, 3, 4}
CnvTargets == {TicksPerDay \div 2, TicksPerDay}

CnvYears == {2024, 2025}

\* every line gets the value id 10 * (file index) + (line index), so that two
\* rows with the same timestamp can be told apart
WithIds(files) ==
    [i \in 1..Len(files) |->
        [files[i] EXCEPT !.lines =
            [j \in 1..Len(files[i].lines) |->
                [files[i].lines[j] EXCEPT !.v = 10 * i + j]]]]

SbeLines ==
    {SbeLine("bad", 0, 0), SbeLine("nodata", 0, 0)}
        \cup {SbeLine("ok", T0 + d, 0) : d \in LineOffsets}

TstickLines ==
    {TstickLine("bad", 0, 0)} \cup {TstickLine("ok", T0 + d, 0) : d \in LineOffsets}

CnvLines ==
    {CnvLine("bad", 0, 0)} \cup {CnvLine("ok", j, 0) : j \in JulianTimes2}

CnvHeaders ==
    {[k |-> "none", year |-> 0, month |-> 0, day |-> 0], [k |-> "bad", year |-> 0, month |-> 0, day |-> 0]}
        \cup {[k |-> "ok", year |-> y, month |-> 6, day |-> 1] : y \in CnvYears}

LinesOf(s) ==
    CASE s = "sbe" -> SbeLines
      [] s = "tstick" -> TstickLines
      [] s = "density" -> CnvLines

\* what a file is besides its lines
AttrsOf(s) ==
    CASE s = "sbe" -> [open_ok : BOOLEAN]
      [] s = "tstick" -> [fail_after : -1..(MaxLines - 1)]
      [] s = "density" ->
            {[read |-> "ok", has_end |-> TRUE, header |-> h] : h \in CnvHeaders}
                \cup {[read |-> r, has_end |-> FALSE, header |-> [k |-> "none", year |-> 0, month |-> 0, day |-> 0]] :
                         r \in {"ok", "decode", "oserror"}}

\* a file whose lines are never read is drawn without lines, and a read that
\* breaks off does so before the end of the file
WellFormed(s, file) ==
    CASE s = "sbe" -> file.open_ok \/ file.lines = <<>>
      [] s = "tstick" -> file.fail_after <= 0 \/ file.fail_after < Len(file.lines)
      [] s = "density" -> (file.read = "ok" /\ file.has_end) \/ file.lines = <<>>

\* the files made of attrs, file f holding the lines that owner gives it
Build(attrs, lines, owner) ==
    [f \in 1..Len(attrs) |->
        Update(attrs[f],
               [lines |-> SelectSeq([i \in 1..Len(lines) |-> [l |-> lines[i], o |-> owner[i]]],
                                    LAMBDA x : x.o = f)])]

Unwrap(files) ==
    [f \in 1..Len(files) |->
        [files[f] EXCEPT !.lines = [i \in 1..Len(files[f].lines) |-> files[f].lines[i].l]]]

\* the file lists of stream s: at most maxFiles files with at most maxLines
\* lines between them
IsFileListWithin(s, files, maxFiles, maxLines) ==
    \E nf \in 0..maxFiles, n \in 0..maxLines :
        \E attrs \in [1..nf -> AttrsOf(s)], lines \in [1..n -> LinesOf(s)],
           owner \in [1..n -> 1..nf] :
            /\ \A i \in 1..(n - 1) : owner[i] <= owner[i + 1]
            /\ \A f \in 1..nf : WellFormed(s, Unwrap(Build(attrs, lines, owner))[f])
            /\ files = WithIds(Unwrap(Build(attrs, lines, owner)))

IsFileList(s, files) == IsFileListWithin(s, files, MaxFiles, MaxLines)

TargetsOf(s) == IF s = "density" THEN CnvTargets ELSE Targets

----------------------------------------------------------------------------
(* Sampled inputs of a folder *)

\* an SBE log whose lines are not in time order
SbeSample ==
    WithIds(<<[open_ok |-> TRUE,
               lines |-> <<SbeLine("ok", T0 + 3, 0), SbeLine("bad", 0, 0),
                           SbeLine("ok", T0 - 1, 0)>>]>>)

TstickSample ==
    WithIds(<<[fail_after |-> -1,
               lines |-> <<TstickLine("ok", T0 - 1, 0), TstickLine("ok", T0 + 2, 0)>>]>>)

\* a .cnv file with rows at 2025-07-27 12:00 and 2025-07-28 00:00
CnvSample ==
    WithIds(<<[read |-> "ok", has_end |-> TRUE, header |-> [k |-> "ok", year |-> 2025, month |-> 6, day |-> 1],
               lines |-> <<CnvLine("ok", 417, 0), CnvLine("ok", 418, 0)>>]>>)

\* 07/28/2025 00:00:00, the start time that the correction moves to T0
StartTime0 == DayStart(7, 28)

\* what the SBE*.log pattern of a folder may match
SbeInputs ==
    {<<>>, SbeSample,
     <<[open_ok |-> TRUE, lines |-> <<SbeLine("bad", 0, 0), SbeLine("nodata", 0, 0)>>]>>,
     <<[open_ok |-> FALSE, lines |-> <<>>]>>}

\* what the T_Stick_2025*.log pattern may match: nothing, the sample, a log
\* without a valid line, a file that cannot be read, a log whose two rows
\* share their timestamp
TstickInputs ==
    {<<>>, TstickSample,
     <<[fail_after |-> -1, lines |-> <<TstickLine("bad", 0, 0)>>]>>,
     <<[fail_after |-> 0, lines |-> <<TstickLine("ok", T0, 1)>>]>>,
     WithIds(<<[fail_after |-> -1,
                lines |-> <<TstickLine("ok", T0, 0), TstickLine("ok", T0, 0)>>]>>)}

\* what the *.cnv pattern may match: nothing, the sample, a file without
\* *END*, a file without a valid body line, an undecodable file, a file that
\* cannot be opened
CnvInputs ==
    {<<>>, CnvSample,
     <<[read |-> "ok", has_end |-> FALSE, header |-> [k |-> "none", year |-> 0, month |-> 0, day |-> 0],
        lines |-> <<>>]>>,
     <<[read |-> "ok", has_end |-> TRUE, header |-> [k |-> "ok", year |-> 2025, month |-> 6, day |-> 1],
        lines |-> <<CnvLine("bad", 0, 0)>>]>>,
     <<[read |-> "decode", has_end |-> FALSE, header |-> [k |-> "none", year |-> 0, month |-> 0, day |-> 0],
        lines |-> <<>>]>>,
     <<[read |-> "oserror", has_end |-> FALSE, header |-> [k |-> "none", year |-> 0, month |-> 0, day |-> 0],
        lines |-> <<>>]>>}

\* the example of the specification: start 07/28/2025 00:00:00 and the rows
\* (0.0, 1.0), (1.0, 5.0), (2.0, 2.0)
ExampleLines ==
    <<TestLine("start", DayStart(7, 28), 0), TestLine("Data1", 0, 0),
      TestLine("row", 0, 1), TestLine("row", TicksPerSecond, 5),
      TestLine("row", 2 * TicksPerSecond, 2)>>

\* the contents of the sampled test files: the example of the specification,
\* a file without a 'Start time:' line, a file with a malformed data line
TestContents ==
    {<<TestLine("start", StartTime0, 0), TestLine("Data1", 0, 0),
       TestLine("row", 0, 1), TestLine("row", TicksPerSecond, 5),
       TestLine("row", 2 * TicksPerSecond, 2)>>,
     <<TestLine("text", 0, 0), TestLine("Data1", 0, 0), TestLine("row", 0, 1)>>,
     <<TestLine("start", StartTime0, 0), TestLine("Data1", 0, 0),
       TestLine("row", 0, 1), TestLine("badrow", 0, 0)>>}

\* the names of the test files of a folder, in sorted order
TestNames == <<"BiegeF_1.txt", "Emodul_1.txt", "Test02_1.txt">>

\* _find_test_files: the sorted test files, the i-th with the i-th name
TestList(contents) ==
    [i \in 1..Len(contents) |->
        [name |-> TestNames[i], open_ok |-> TRUE, lines |-> contents[i]]]

----------------------------------------------------------------------------
(* Test-file specification: read_data and _process_test_file on one file *)

MetaLines ==
    {TestLine("text", 0, 0), TestLine("startbad", 0, 0), TestLine("start", StartTime0, 0)}

Forces == {-7, 1, 2, 5}

DataLines ==
    {TestLine("blank", 0, 0), TestLine("Time", 0, 0), TestLine("badrow", 0, 0)}
        \cup {TestLine("row", 0, f) : f \in Forces}

\* the sampling interval of a file, in ticks
SampleIntervals == {1, TicksPerSecond}

\* the i-th line of the data section carries the offset (i - 1) * dt
Timed(data, dt) ==
    [i \in 1..Len(data) |->
        IF data[i].k = "row" THEN [data[i] EXCEPT !.t = (i - 1) * dt] ELSE data[i]]

\* the test files drawn: metadata lines, then either nothing or the Data1
\* line and a data section; or a file that cannot be opened
IsTestFile(file) ==
    \/ file = [name |-> "Test02_1.txt", open_ok |-> FALSE, lines |-> <<>>]
    \/ \E m \in 0..MaxMeta, n \in 0..MaxSamples :
           \E meta \in [1..m -> MetaLines], data \in [1..n -> DataLines] :
               \/ /\ n = 0
                  /\ file = [name |-> "Test02_1.txt", open_ok |-> TRUE, lines |-> meta]
               \/ \E dt \in SampleIntervals :
                      /\ n = 0 => dt = 1
                      /\ file = [name |-> "Test02_1.txt", open_ok |-> TRUE,
                                 lines |-> meta \o <<TestLine("Data1", 0, 0)>>
                                               \o Timed(data, dt)]

FolderIdle ==
    /\ folder_path = NotCalled
    /\ folder_env = NotCalled
    /\ df_result = NotCalled
    /\ folder_files = NotCalled

RunIdle ==
    /\ experiment_dir = <<>>
    /\ master_csv = NoneValue
    /\ pc = "none"
    /\ skip_existing = FALSE
    /\ folders_to_process = <<>>
    /\ existing_df = <<>>
    /\ all_results = <<>>
    /\ outcome = <<>>
    /\ modes = <<>>
    /\ selected = <<>>
    /\ master_at_start = NoneValue
    /\ ended = "none"

TestIdle ==
    /\ test_file = NotCalled
    /\ env_data = NotCalled
    /\ read_result = NotCalled
    /\ max_timestamp = NoneValue
    /\ row_data = NotCalled
    /\ info_file = NoneValue

StreamIdle ==
    /\ stream = "none"
    /\ log_files = <<>>
    /\ ds = NotCalled
    /\ target_datetime = 0
    /\ closest = NotCalled

TestInit ==
    /\ IsTestFile(test_file)
    /\ env_data = load_environmental_data(
                      [sbe_files |-> SbeSample, tstick_files |-> TstickSample,
                       cnv_files |-> CnvSample, tests |-> <<>>])
    /\ read_result = NotCalled
    /\ max_timestamp = NoneValue
    /\ row_data = NotCalled
    /\ info_file = NoneValue
    /\ StreamIdle
    /\ FolderIdle
    /\ RunIdle

ReadData ==
    /\ test_file # NotCalled /\ read_result = NotCalled
    /\ read_result' = read_data(test_file)
    /\ UNCHANGED <<test_file, env_data, max_timestamp, row_data, info_file>>
    /\ UNCHANGED <<streamVars, folderVars, runVars>>

ProcessTestFile ==
    /\ test_file # NotCalled /\ read_result # NotCalled /\ row_data = NotCalled
    /\ \E r \in {process_test_file(test_file, env_data)} :
           /\ row_data' = Return(r.row)
           /\ max_timestamp' = r.peak
           /\ info_file' = r.info
    /\ UNCHANGED <<test_file, env_data, read_result>>
    /\ UNCHANGED <<streamVars, folderVars, runVars>>

TestNext ==
    \/ ReadData
    \/ ProcessTestFile

SpecTest == TestInit /\ [][TestNext]_vars

----------------------------------------------------------------------------
(* Stream-level specification: one parser call, then one locator call *)

StreamInit ==
    /\ stream \in {"sbe", "tstick", "density"}
    /\ IsFileList(stream, log_files)
    /\ target_datetime \in TargetsOf(stream)
    /\ ds = NotCalled
    /\ closest = NotCalled
    /\ TestIdle
    /\ FolderIdle
    /\ RunIdle

ReadSbe ==
    /\ stream = "sbe" /\ ds = NotCalled
    /\ ds' = read_sbe_data(log_files)
    /\ UNCHANGED <<stream, log_files, target_datetime, closest>>
    /\ UNCHANGED <<testVars, folderVars, runVars>>

ReadTstick ==
    /\ stream = "tstick" /\ ds = NotCalled
    /\ ds' = read_tstick_data(log_files)
    /\ UNCHANGED <<stream, log_files, target_datetime, closest>>
    /\ UNCHANGED <<testVars, folderVars, runVars>>

ProcessCnv ==
    /\ stream = "density" /\ ds = NotCalled
    /\ ds' = process_sbe37cnv_data(log_files)
    /\ UNCHANGED <<stream, log_files, target_datetime, closest>>
    /\ UNCHANGED <<testVars, folderVars, runVars>>

\* the locators are called on what the parser returned; _find_closest_measurements
\* calls them only on a value that is not None
FindClosestTimestamp ==
    /\ stream = "sbe" /\ closest = NotCalled
    /\ ds.tag = "return" /\ ds.val # NoneValue
    /\ closest' = find_closest_timestamp(ds.val, target_datetime)
    /\ UNCHANGED <<stream, log_files, ds, target_datetime>>
    /\ UNCHANGED <<testVars, folderVars, runVars>>

FindClosestDensity ==
    /\ stream = "density" /\ closest = NotCalled
    /\ ds.tag = "return" /\ ds.val # NoneValue
    /\ closest' = find_closest_density(ds.val, target_datetime)
    /\ UNCHANGED <<stream, log_files, ds, target_datetime>>
    /\ UNCHANGED <<testVars, folderVars, runVars>>

FindClosestTstick ==
    /\ stream = "tstick" /\ closest = NotCalled
    /\ ds.tag = "return"
    /\ closest' = find_closest_tstick(ds.val, target_datetime)
    /\ UNCHANGED <<stream, log_files, ds, target_datetime>>
    /\ UNCHANGED <<testVars, folderVars, runVars>>

StreamNext ==
    \/ ReadSbe
    \/ ReadTstick
    \/ ProcessCnv
    \/ FindClosestTimestamp
    \/ FindClosestDensity
    \/ FindClosestTstick

SpecStream == StreamInit /\ [][StreamNext]_vars

\* the same for the density stream alone: process_sbe37cnv_data on at most
\* MaxCnvFiles files with at most MaxCnvLines body lines between them, then
\* find_closest_density
CnvInit ==
    /\ stream = "density"
    /\ IsFileListWithin(stream, log_files, MaxCnvFiles, MaxCnvLines)
    /\ target_datetime \in CnvTargets
    /\ ds = NotCalled
    /\ closest = NotCalled
    /\ TestIdle
    /\ FolderIdle
    /\ RunIdle

CnvNext ==
    \/ ProcessCnv
    \/ FindClosestDensity

SpecCnv == CnvInit /\ [][CnvNext]_vars

----------------------------------------------------------------------------
(* Folder specification: process_single_experiment on one folder *)

FolderInit ==
    /\ \E sbe \in SbeInputs, tstick \in TstickInputs, cnv \in CnvInputs, n \in 0..MaxTests :
           \E contents \in [1..n -> TestContents] :
               folder_path = [name |-> "expA", sbe_files |-> sbe, tstick_files |-> tstick,
                              cnv_files |-> cnv, tests |-> TestList(contents)]
    /\ folder_env = NotCalled
    /\ df_result = NotCalled
    /\ folder_files = [infos |-> <<>>, summary |-> NoneValue]
    /\ StreamIdle
    /\ TestIdle
    /\ RunIdle

ProcessSingleExperiment ==
    /\ folder_path # NotCalled /\ df_result = NotCalled
    /\ \E r \in {process_single_experiment(folder_path, folder_path.name)} :
           /\ folder_env' = r.env
           /\ df_result' = Return(r.df)
           /\ folder_files' = [infos |-> r.infos, summary |-> r.summary]
    /\ UNCHANGED folder_path
    /\ UNCHANGED <<streamVars, testVars, runVars>>

FolderNext == ProcessSingleExperiment

SpecFolder == FolderInit /\ [][FolderNext]_vars

----------------------------------------------------------------------------
(* CSV files as pandas writes and reads them (sep=';', decimal=',') *)

\* an integer cell, as read_csv gives for a column of whole numbers
Whole(n) == [k |-> "int", s |-> "", n |-> n]

\* DataFrame.to_csv: a string is written as it is, a float with a decimal
\* comma, an integer by its digits, NaN as the empty text
ToCsvCell(cell) ==
    CASE cell.k = "str" -> cell.s
      [] cell.k = "num" -> ToString(cell.n) \o ",0"
      [] cell.k = "int" -> ToString(cell.n)
      [] cell.k = "nan" -> ""

ToCsv(rows) ==
    [i \in 1..Len(rows) |-> [key \in DOMAIN rows[i] |-> ToCsvCell(rows[i][key])]]

\* texts that read_csv takes for a missing value
NaTexts == {"", "N/A", "NA", "NaN", "nan", "null", "NULL", "n/a", "#N/A"}

\* the numbers whose numerals occur in the sampled files
Numbers == (0..13) \cup {2025}

IsIntText(text) == \E n \in Numbers : text = ToString(n)
IsFloatText(text) == \E n \in Numbers : text = ToString(n) \o ",0"
ParseNumber(text) ==
    CHOOSE n \in Numbers : text = ToString(n) \/ text = ToString(n) \o ",0"

\* pd.read_csv infers the type of a column from all its cells: a column whose
\* texts are all whole numbers becomes integers, one whose texts are all
\* numbers or missing becomes floats, any other column keeps its texts; a
\* missing-value text becomes NaN in every column
ReadCsvColumn(texts) ==
    LET given == {i \in 1..Len(texts) : texts[i] \notin NaTexts}
        all_int == \A i \in 1..Len(texts) : IsIntText(texts[i])
        all_num == \A i \in given : IsIntText(texts[i]) \/ IsFloatText(texts[i])
    IN  [i \in 1..Len(texts) |->
            IF i \notin given THEN NaN
            ELSE IF all_int THEN Whole(ParseNumber(texts[i]))
            ELSE IF all_num THEN Num(ParseNumber(texts[i]))
            ELSE Str(texts[i])]

ReadCsv(rows) ==
    [i \in 1..Len(rows) |->
        [key \in DOMAIN rows[i] |->
            ReadCsvColumn([j \in 1..Len(rows) |-> rows[j][key]])[i]]]

\* a CSV file on disk: whether pandas can parse it, and its rows of texts
CsvFile(rows) == [tag |-> "file", readable |-> TRUE, rows |-> rows]
UnreadableFile == [tag |-> "file", readable |-> FALSE, rows |-> <<>>]

----------------------------------------------------------------------------
(* Orchestrator, the run: main.py get_processed_folders and run_analysis *)

\* the folder names of the sampled directories in the order of sorted()
NameOrder == <<"2025", "expA", "expB">>
Names == Range(NameOrder)

sorted(names) == SelectSeq(NameOrder, LAMBDA name : name \in names)

\* the set of the values of the column experiment_folder as read_csv gives
\* them; an exception of read_csv is caught and gives the empty set
get_processed_folders(master) ==
    IF master = NoneValue THEN {}
    ELSE IF ~master.readable THEN {}
    ELSE {ReadCsv(master.rows)[i].experiment_folder : i \in 1..Len(master.rows)}

\* lines 333-335: the rows of existing_df, or the exception of read_csv,
\* which no handler catches
LoadNothing(master) == Return(<<>>)

LoadExisting(master) ==
    IF master = NoneValue THEN Return(<<>>)
    ELSE IF ~master.readable THEN Raise("ParserError")
    ELSE Return(ReadCsv(master.rows))

\* lines 348-352: the loop goes on whether the folder gave a table or None
StopAtSkippedFolder(result_df) == IF result_df = NoneValue THEN "aborted" ELSE "loop"

AfterFolder(result_df) == "loop"

\* a loop that collects no table of a folder
DiscardResult(results, result_df) == results

\* lines 349-350: the table of a folder that gave one joins the tables to
\* persist (all_results holds their rows, in the order of pd.concat)
AppendResult(results, result_df) ==
    IF result_df # NoneValue
    THEN results \o result_df.rows
    ELSE results

\* the sampled experiment folders: one whose first test file gives a row and
\* whose second has no start time; one whose only test file has no start
\* time; one without temperature-stick logs; one without a .cnv file; one
\* whose .cnv file has no valid body line
FolderSamples ==
    {[sbe_files |-> SbeSample, tstick_files |-> TstickSample, cnv_files |-> CnvSample,
      tests |-> TestList(<<ExampleLines,
                           <<TestLine("text", 0, 0), TestLine("Data1", 0, 0),
                             TestLine("row", 0, 1)>> >>)],
     [sbe_files |-> SbeSample, tstick_files |-> TstickSample, cnv_files |-> CnvSample,
      tests |-> TestList(<< <<TestLine("text", 0, 0), TestLine("Data1", 0, 0),
                              TestLine("row", 0, 1)>> >>)],
     [sbe_files |-> SbeSample, tstick_files |-> <<>>, cnv_files |-> CnvSample,
      tests |-> TestList(<<ExampleLines>>)],
     [sbe_files |-> SbeSample, tstick_files |-> TstickSample, cnv_files |-> <<>>,
      tests |-> TestList(<<ExampleLines>>)],
     [sbe_files |-> SbeSample, tstick_files |-> TstickSample,
      cnv_files |-> <<[read |-> "ok", has_end |-> TRUE,
                       header |-> [k |-> "ok", year |-> 2025, month |-> 6, day |-> 1],
                       lines |-> <<CnvLine("bad", 0, 0)>>]>>,
      tests |-> TestList(<<ExampleLines>>)]}

\* process_single_experiment on every sampled folder under every name: the
\* pass depends on nothing but the folder's files and its name
FolderPass ==
    [f \in FolderSamples, name \in Names |-> process_single_experiment(f, name)]

\* the master summary before the first run: none, a file that pandas cannot
\* parse, or the file that a run wrote when the directory held the folder
\* expOld, which has been moved away since
InitialMasters ==
    {NoneValue, UnreadableFile,
     CsvFile(ToCsv(process_single_experiment(
                       [sbe_files |-> SbeSample, tstick_files |-> <<>>,
                        cnv_files |-> CnvSample, tests |-> TestList(<<ExampleLines>>)],
                       "expOld").df.rows))}

RunInit ==
    /\ \E present \in SUBSET Names : experiment_dir \in [present -> FolderSamples]
    /\ master_csv \in InitialMasters
    /\ pc = "idle"
    /\ skip_existing = FALSE
    /\ folders_to_process = <<>>
    /\ existing_df = <<>>
    /\ all_results = <<>>
    /\ outcome = <<>>
    /\ modes = <<>>
    /\ selected = <<>>
    /\ master_at_start = master_csv
    /\ ended = "none"
    /\ StreamIdle
    /\ TestIdle
    /\ FolderIdle

\* run_analysis up to the loop, lines 316-342.  The run returns at line 328,
\* ends with the exception of line 335, or enters the loop.
StartRun(skip) ==
    /\ pc = "idle" /\ Len(modes) < MaxRuns
    /\ LET experiment_folders == DOMAIN experiment_dir
           processed_folders == get_processed_folders(master_csv)
           todo == IF skip
                   THEN {f \in experiment_folders : Str(f) \notin processed_folders}
                   ELSE experiment_folders
           existing == IF skip THEN LoadExisting(master_csv) ELSE Return(<<>>)
           stop == IF skip /\ todo = {} THEN "returned"
                   ELSE IF existing.tag = "raise" THEN "raised"
                   ELSE "none"
       IN  /\ pc' = IF stop = "none" THEN "loop" ELSE "idle"
           /\ ended' = stop
           /\ folders_to_process' = IF stop = "none" THEN sorted(todo) ELSE <<>>
           /\ selected' = IF stop = "none" THEN sorted(todo) ELSE <<>>
           /\ existing_df' = IF stop = "none" THEN existing.val ELSE <<>>
           /\ all_results' = IF stop = "none" THEN existing.val ELSE <<>>
    /\ skip_existing' = skip
    /\ modes' = Append(modes, skip)
    /\ outcome' = <<>>
    /\ master_at_start' = master_csv
    /\ UNCHANGED <<experiment_dir, master_csv>>
    /\ UNCHANGED <<streamVars, testVars, folderVars>>

\* one pass of the loop of lines 344-352, on the first folder still to do.
\* What the pass writes into the folder (info files, experiment_summary.csv)
\* matches none of the glob patterns, so the folder reads the same afterwards.
ProcessFolder ==
    /\ pc = "loop" /\ folders_to_process # <<>>
    /\ \E folder_name \in {Head(folders_to_process)} :
       \E result_df \in {FolderPass[experiment_dir[folder_name], folder_name].df} :
           /\ all_results' = AppendResult(all_results, result_df)
           /\ outcome' = Update(outcome,
                                [name \in {folder_name} |->
                                    IF result_df # NoneValue THEN "saved" ELSE "skipped"])
           /\ pc' = AfterFolder(result_df)
    /\ folders_to_process' = Tail(folders_to_process)
    /\ UNCHANGED <<experiment_dir, master_csv, skip_existing, existing_df, modes,
                   selected, master_at_start, ended>>
    /\ UNCHANGED <<streamVars, testVars, folderVars>>

\* lines 354-357 after the loop: the concatenated tables overwrite the master
\* summary, unless there is no table at all
Persist ==
    /\ pc = "loop" /\ folders_to_process = <<>>
    /\ master_csv' = IF all_results # <<>> THEN CsvFile(ToCsv(all_results)) ELSE master_csv
    /\ pc' = "idle"
    /\ ended' = "finished"
    /\ UNCHANGED <<experiment_dir, skip_existing, folders_to_process, existing_df,
                   all_results, outcome, modes, selected, master_at_start>>
    /\ UNCHANGED <<streamVars, testVars, folderVars>>

RunNext ==
    \/ \E skip \in BOOLEAN : StartRun(skip)
    \/ ProcessFolder
    \/ Persist

SpecRun == RunInit /\ [][RunNext]_vars

\* a run that has entered the loop goes on to its end
FairSpecRun == SpecRun /\ WF_vars(ProcessFolder) /\ WF_vars(Persist)

----------------------------------------------------------------------------
(* Claims about the locators (SpecStream) *)

\* C1: whenever a locator has returned a row of a table with at least one
\* row, that row's timestamp is at least as close to the target as every
\* row's, and of the rows equally close it is the first in ascending
\* timestamp order.
C1_ClosestRowEarliestInTime ==
    (closest.tag = "return" /\ closest.val # NoneValue) =>
        LET rows == ds.val.rows
            dist(r) == Abs(r.ts - target_datetime)
        IN  /\ closest.val \in Range(rows)
            /\ \A i \in 1..Len(rows) : dist(closest.val) <= dist(rows[i])
            /\ \A i \in 1..Len(rows) :
                   dist(rows[i]) = dist(closest.val) => closest.val.ts <= rows[i].ts

----------------------------------------------------------------------------
(* Claims about the mechanical-test reader (SpecTest) *)

\* the metadata preamble of a file: the lines before the first Data1 line
MetadataBeforeData(lines) ==
    LET marks == {i \in 1..Len(lines) : lines[i].k = "Data1"}
    IN  IF marks = {} THEN lines
        ELSE SubSeq(lines, 1, (CHOOSE i \in marks : \A j \in marks : i <= j) - 1)

\* a file that read_data parsed, with a start time and at least one sample,
\* has been processed
PeakComputed ==
    /\ row_data # NotCalled
    /\ read_result.tag = "return"
    /\ read_result.val.corrected_time # NoneValue
    /\ read_result.val.force_data # <<>>

\* C9 as stated: the peak-force timestamp is the corrected start time plus the
\* offset of the first sample whose force has the largest magnitude |force|.
C9_PeakAtLargestMagnitude ==
    PeakComputed =>
        LET r == read_result.val
            f == r.force_data
        IN  /\ max_timestamp # NoneValue
            /\ \E i \in 1..Len(f) :
                   /\ \A j \in 1..Len(f) : Abs(f[j]) <= Abs(f[i])
                   /\ \A j \in 1..(i - 1) : Abs(f[j]) < Abs(f[i])
                   /\ max_timestamp.t = r.corrected_time.t + r.time_data[i]

\* C9, amended: the peak-force timestamp is the corrected start time plus the
\* offset of the first sample whose signed force value is the largest; the
\* example file gives the corrected start 2025-07-27 22:16:00, the second
\* sample as peak and the peak timestamp 2025-07-27 22:16:01.
C9_PeakAtLargestForce ==
    /\ PeakComputed =>
           LET r == read_result.val
               f == r.force_data
           IN  /\ max_timestamp # NoneValue
               /\ \E i \in 1..Len(f) :
                      /\ \A j \in 1..Len(f) : f[j] <= f[i]
                      /\ \A j \in 1..(i - 1) : f[j] < f[i]
                      /\ max_timestamp.t = r.corrected_time.t + r.time_data[i]
    /\ (row_data # NotCalled /\ test_file.lines = ExampleLines) =>
           /\ read_result.val.corrected_time
                  = Datetime(DayStart(7, 27) + (22 * 3600 + 16 * 60) * TicksPerSecond)
           /\ max_timestamp
                  = Datetime(DayStart(7, 27) + (22 * 3600 + 16 * 60 + 1) * TicksPerSecond)

\* witness of C9: a file whose largest force is not the first sample and
\* whose forces have a tie at the top has been processed
C9_TiedPeakProcessed ==
    /\ PeakComputed
    /\ \E i, j \in 1..Len(read_result.val.force_data) :
           /\ 1 < i /\ i < j
           /\ read_result.val.force_data[i] = read_result.val.force_data[j]
           /\ read_result.val.force_data[1] < read_result.val.force_data[i]
           /\ read_result.val.time_data[i] # read_result.val.time_data[j]

\* C10: read_data gives the value of the first 'Start time:' line minus
\* 1 h 44 min and rewrites that metadata line and no other; without such a
\* line the corrected start time is None, the metadata is as read, and
\* _process_test_file gives no row, no info file and no peak timestamp.
C10_CorrectedStartOrNothing ==
    (read_result.tag = "return") =>
        LET r == read_result.val
            before == MetadataBeforeData(test_file.lines)
            starts == {i \in 1..Len(before) : before[i].k \in {"start", "startbad"}}
        IN  IF starts = {}
            THEN /\ r.corrected_time = NoneValue
                 /\ r.meta = before
                 /\ row_data # NotCalled =>
                        /\ row_data.val = NoneValue
                        /\ info_file = NoneValue
                        /\ max_timestamp = NoneValue
            ELSE LET i == CHOOSE x \in starts : \A y \in starts : x <= y
                     want == before[i].t - (3600 + 44 * 60) * TicksPerSecond
                 IN  /\ r.corrected_time = Datetime(want)
                     /\ Len(r.meta) = Len(before)
                     /\ \A j \in 1..Len(before) : j # i => r.meta[j] = before[j]
                     /\ r.meta[i].k = "corrected"
                     /\ r.meta[i].t = (want \div TicksPerSecond) * TicksPerSecond

\* witness of C10: a file with samples but no 'Start time:' line has been read
\* and processed
C10_NoStartTimeProcessed ==
    /\ read_result.tag = "return"
    /\ read_result.val.corrected_time = NoneValue
    /\ read_result.val.force_data # <<>>
    /\ row_data # NotCalled

----------------------------------------------------------------------------
(* Claims about one folder (SpecFolder) *)

\* process_single_experiment has returned a table of rows
FolderSaved == df_result # NotCalled /\ df_result.val # NoneValue

\* the row of the returned table for the test file called name
RowOf(name) ==
    LET rows == df_result.val.rows
    IN  rows[CHOOSE i \in 1..Len(rows) : rows[i].measurement_file = Str(name)]

HasRow(name) ==
    /\ FolderSaved
    /\ \E i \in 1..Len(df_result.val.rows) :
           df_result.val.rows[i].measurement_file = Str(name)

\* a table that is loaded and has at least one row
Present(table) == table # NoneValue /\ table.rows # <<>>

\* C2: every row of a folder's table carries, for each of the streams CTD
\* (SBE log), density and temperature stick that is present, the timestamp and
\* the values of the record that the stream's locator returns for the peak
\* timestamp of the row's test file.
C2_RowCarriesEveryPresentStream ==
    FolderSaved =>
        \A i \in 1..Len(folder_path.tests) :
            LET file == folder_path.tests[i]
                one == process_test_file(file, folder_env)
            IN  HasRow(file.name) =>
                    LET row == RowOf(file.name)
                        peak == one.peak.t
                    IN  /\ Present(folder_env["ds_sbe"]) =>
                               LET rec == find_closest_timestamp(folder_env["ds_sbe"], peak).val
                               IN  \E tk, vk \in DOMAIN row :
                                       /\ row[tk] = FormatTimestamp(rec.ts)
                                       /\ row[vk] = Num(rec.v)
                        /\ Present(folder_env["ds_density"]) =>
                               LET rec == find_closest_density(folder_env["ds_density"], peak).val
                               IN  /\ row.ctd_time = FormatTimestamp(rec.ts)
                                   /\ row.ctd_T = Num(rec.v)
                        /\ Present(folder_env["ds_tsticks"]) =>
                               LET rec == find_closest_tstick(folder_env["ds_tsticks"], peak).val
                               IN  /\ row.tstick_time = FormatTimestamp(rec.ts)
                                   /\ row.tstick_profile = FormatProfile(rec.v)

\* C3: in a folder whose tables are each either absent or loaded with rows,
\* every test file whose mechanical data parses (a start time and at least
\* one sample) has a row in the folder's table, and the row's fields of each
\* absent stream are "N/A".
C3_AbsentStreamsGiveNotAvailable ==
    (/\ df_result # NotCalled
     /\ folder_env # EmptyDict
     /\ \A key \in DOMAIN folder_env :
            folder_env[key] = NoneValue \/ Present(folder_env[key])) =>
        \A i \in 1..Len(folder_path.tests) :
            LET file == folder_path.tests[i]
                read == read_data(file)
            IN  (read.tag = "return" /\ MaxTimestamp(read.val).tag = "return") =>
                    /\ HasRow(file.name)
                    /\ folder_env["ds_density"] = NoneValue =>
                           RowOf(file.name).ctd_time = Str("N/A")
                    /\ folder_env["ds_tsticks"] = NoneValue =>
                           /\ RowOf(file.name).tstick_time = Str("N/A")
                           /\ RowOf(file.name).tstick_profile = Str("N/A")

\* C4: whatever the loaders of the other streams do, a folder's pass goes on
\* to its test files, each stream whose loader returns keeps what the loader
\* returned, and a stream whose loader raises is absent (None).
C4_StreamsLoadIndependently ==
    df_result # NotCalled =>
        LET loaded == [key \in {"ds_sbe", "ds_tsticks", "ds_density"} |->
                          CASE key = "ds_sbe" -> read_sbe_data(folder_path.sbe_files)
                            [] key = "ds_tsticks" -> read_tstick_data(folder_path.tstick_files)
                            [] key = "ds_density" ->
                                   process_sbe37cnv_data(folder_path.cnv_files)]
        IN  /\ folder_env # EmptyDict
            /\ \A key \in DOMAIN loaded :
                   folder_env[key] = IF loaded[key].tag = "return"
                                     THEN loaded[key].val ELSE NoneValue

----------------------------------------------------------------------------
(* Claims about runs (SpecRun, FairSpecRun) *)

\* a run has ended: by the return of line 328, by the exception of line 335,
\* or after the step of lines 354-357
RunEnded == pc = "idle" /\ modes # <<>>

RowsOf(master) == IF master = NoneValue THEN <<>> ELSE master.rows

\* the rows that the passes over the selected folders give, in folder order
ComputedRows ==
    Concat([i \in 1..Len(selected) |->
               LET df == FolderPass[experiment_dir[selected[i]], selected[i]].df
               IN  IF df = NoneValue THEN <<>> ELSE df.rows])

\* the key of a row of a CSV file
KeyOf(row) == <<row.experiment_folder, row.measurement_file>>
Keys(rows) == {KeyOf(rows[i]) : i \in 1..Len(rows)}

\* a CSV file as pandas reads it
Table(master) ==
    IF master = NoneValue \/ ~master.readable THEN master
    ELSE DataFrame(ReadCsv(master.rows))

\* C5: a run that has entered the loop over the folders it selected reaches
\* the step that persists the master summary, and by then every selected
\* folder has ended as saved or skipped, the folders after one that gave no
\* table included.
C5_RunSurvivesFailures ==
    (pc = "loop") ~>
        (/\ pc = "idle" /\ ended = "finished"
         /\ \A i \in 1..Len(selected) :
                /\ selected[i] \in DOMAIN outcome
                /\ outcome[selected[i]] \in {"saved", "skipped"})

\* witness of C5: a run has persisted after a folder that was skipped and a
\* later folder that was saved
C5_SavedAfterSkippedFolder ==
    /\ RunEnded /\ ended = "finished"
    /\ \E i, j \in 1..Len(selected) :
           /\ i < j
           /\ outcome[selected[i]] = "skipped"
           /\ outcome[selected[j]] = "saved"

\* C6 as stated: at the end of every run, in both modes, the rows of the
\* master summary (by their keys) are the rows it held at run start together
\* with the rows computed in the run.
C6_MasterIsUnionInBothModes ==
    RunEnded =>
        Keys(RowsOf(master_csv))
            = Keys(RowsOf(master_at_start)) \cup Keys(ToCsv(ComputedRows))

\* C6, amended: a run that persists in skip-existing mode writes every row
\* that the master summary held at run start, in the same order and as
\* pandas reads and writes it again, followed by the rows computed in the
\* run; a run that persists in process-all mode writes the rows computed in
\* the run and no other; a run that ends without any table leaves the master
\* summary as it was.
C6_MasterKeepsRowsWhenSkipping ==
    RunEnded =>
        LET kept == IF skip_existing /\ master_at_start # NoneValue
                    THEN ReadCsv(master_at_start.rows)
                    ELSE <<>>
        IN  IF ended = "finished" /\ kept \o ComputedRows # <<>>
            THEN master_csv = CsvFile(ToCsv(kept \o ComputedRows))
            ELSE master_csv = master_at_start

\* witness of C6: a run in skip-existing mode has persisted rows of its own
\* after a master summary that held rows
C6_RowsAppendedToMaster ==
    /\ RunEnded /\ ended = "finished" /\ skip_existing
    /\ RowsOf(master_at_start) # <<>>
    /\ ComputedRows # <<>>

\* C7: after the second of two runs in a row with skip-existing, the master
\* summary, as pandas reads it, is what it was after the first.
C7_SecondSkipRunChangesNothing ==
    (/\ RunEnded /\ Len(modes) >= 2
     /\ modes[Len(modes)] /\ modes[Len(modes) - 1]) =>
        Table(master_csv) = Table(master_at_start)

\* C8: after a run has written the master summary, a folder name is in the
\* set that get_processed_folders reads back from the file exactly when the
\* file holds a row written for that folder.
C8_RoundTripKeepsSkipDecision ==
    (RunEnded /\ ended = "finished" /\ all_results # <<>>) =>
        \A name \in Names \cup {"expOld"} :
            Str(name) \in get_processed_folders(master_csv)
                <=> \E i \in 1..Len(master_csv.rows) :
                        master_csv.rows[i].experiment_folder = name

----------------------------------------------------------------------------
(* Claims about empty tables (SpecFolder) *)

\* a table that is loaded and has no row
EmptyTable(table) == table # NoneValue /\ table.rows = <<>>

\* C11: a locator called on a table with zero rows raises and returns no
\* record, and in a folder with such a table (whose density table has rows)
\* every test file whose mechanical data parses still has its row, with the
\* fields of the stream of the empty table "N/A".
C11_EmptyTableGivesNotAvailable ==
    (/\ df_result # NotCalled
     /\ folder_env # EmptyDict
     /\ Present(folder_env["ds_density"])) =>
        \A key \in DOMAIN folder_env :
            EmptyTable(folder_env[key]) =>
                /\ ClosestRow(folder_env[key], T0).tag = "raise"
                /\ \A i \in 1..Len(folder_path.tests) :
                       LET file == folder_path.tests[i]
                           read == read_data(file)
                       IN  (read.tag = "return" /\ MaxTimestamp(read.val).tag = "return") =>
                               /\ HasRow(file.name)
                               /\ key = "ds_tsticks" =>
                                      /\ RowOf(file.name).tstick_time = Str("N/A")
                                      /\ RowOf(file.name).tstick_profile = Str("N/A")

----------------------------------------------------------------------------
(* Claims about the environmental parsers (SpecStream) *)

\* a parser has returned a table
TableReturned == ds # NotCalled /\ ds.tag = "return" /\ ds.val # NoneValue

\* the rows of the lines that were read and pass the format grammar, in input
\* order (file after file, line after line), before any removal of duplicates
InputTimestamps ==
    LET FileTimestamps(file) ==
            LET read == IF stream = "tstick" THEN TstickLinesRead(file) ELSE file.lines
                kept == SelectSeq(read, LAMBDA l : l.k = "ok")
            IN  [i \in 1..Len(kept) |->
                    [ts |-> IF stream = "density"
                            THEN JulianToDatetime(CnvYear(file), kept[i].jul2)
                            ELSE kept[i].ts,
                     v |-> kept[i].v]]
    IN  Concat([f \in 1..Len(log_files) |-> FileTimestamps(log_files[f])])

\* C12: a table returned by a parser has strictly increasing timestamps, and
\* of the input rows that share a timestamp exactly the first in input order
\* is a row of the table.
C12_TableSortedKeepingFirst ==
    TableReturned =>
        LET rows == ds.val.rows
            input == InputTimestamps
        IN  /\ \A i \in 1..(Len(rows) - 1) : rows[i].ts < rows[i + 1].ts
            /\ \A i \in 1..Len(input) :
                   (input[i].v \in {rows[j].v : j \in 1..Len(rows)})
                       <=> (\A j \in 1..(i - 1) : input[j].ts # input[i].ts)

\* the lines of the matched files that pass the format grammar, whether or
\* not the parser came to read them
ValidLines ==
    Concat([f \in 1..Len(log_files) |->
               SelectSeq(log_files[f].lines, LAMBDA l : l.k = "ok")])

\* every matched file could be opened: what is wrong with a file, if
\* anything, is its content (undecodable bytes, a missing *END* marker)
FilesOpened ==
    CASE stream = "sbe" -> \A f \in 1..Len(log_files) : log_files[f].open_ok
      [] stream = "density" -> \A f \in 1..Len(log_files) : log_files[f].read # "oserror"
      [] stream = "tstick" -> TRUE

\* C13: when the parser has run over files that could all be opened and of
\* which at least one line passes the grammar, it returns a table with at
\* most one row per valid line, and every valid line whose timestamp no
\* other valid line shares is a row of it: neither a malformed line nor a
\* malformed file costs a valid row.
C13_ValidRowsSurvive ==
    (ds # NotCalled /\ FilesOpened /\ ValidLines # <<>>) =>
        /\ ds.tag = "return"
        /\ ds.val # NoneValue
        /\ Len(ds.val.rows) <= Len(ValidLines)
        /\ \A i \in 1..Len(ValidLines) :
               (stream = "tstick" =>
                    \A j \in 1..Len(ValidLines) :
                        j # i => ValidLines[j].ts # ValidLines[i].ts)
                   => ValidLines[i].v \in {ds.val.rows[j].v : j \in 1..Len(ds.val.rows)}

\* the density parser has returned the table of one file whose header is
\* '# start_time = 2025-06-01 [...]' and whose body has a row with
\* JulianTime 1.5 (among others, possibly)
JulianExample ==
    /\ stream = "density" /\ TableReturned
    /\ Len(log_files) = 1
    /\ log_files[1].header = [k |-> "ok", year |-> 2025, month |-> 6, day |-> 1]
    /\ \E i \in 1..Len(log_files[1].lines) :
           log_files[1].lines[i].k = "ok" /\ log_files[1].lines[i].jul2 = 3

\* the rows of the table that come from the body rows with JulianTime 1.5
JulianExampleRows ==
    {r \in Range(ds.val.rows) :
        \E i \in 1..Len(log_files[1].lines) :
            /\ log_files[1].lines[i].k = "ok" /\ log_files[1].lines[i].jul2 = 3
            /\ log_files[1].lines[i].v = r.v}

\* C14 as stated: with the header '# start_time = 2025-06-01 [...]' a body
\* row with JulianTime 1.5 gets the timestamp 2025-06-01 12:00:00.
C14_JulianCountedFromStartTime ==
    JulianExample =>
        \A r \in JulianExampleRows :
            r.ts = DayStart(6, 1) + 12 * 3600 * TicksPerSecond

\* C14, amended: with the header '# start_time = 2025-06-01 [...]' a body
\* row with JulianTime 1.5 gets the timestamp 2025-01-01 12:00:00: the
\* Julian time counts days of the year, day 1.0 being January 1st 00:00 of
\* the header's year.
C14_JulianCountedFromNewYear ==
    JulianExample =>
        \A r \in JulianExampleRows :
            r.ts = DayStart(1, 1) + 12 * 3600 * TicksPerSecond

C14_JulianExampleParsed == JulianExample /\ JulianExampleRows # {}

\* C18: every row of the table returned by the density parser carries the
\* timestamp reconstructed with the year of the start_time header of the
\* file the row was read from, or with the fallback year when that file has
\* no header that parses.
C18_RowsDatedByOwnFile ==
    (stream = "density" /\ TableReturned) =>
        /\ Len(ds.val.rows) = Len(InputTimestamps)
        /\ \A i \in 1..Len(ds.val.rows) :
               /\ ds.val.rows[i].v = InputTimestamps[i].v
               /\ ds.val.rows[i].ts = InputTimestamps[i].ts

----------------------------------------------------------------------------
(* Claims about the life of a folder (SpecRun) *)

\* the folder was not in the master summary when the run began
NotInMaster(name) == Str(name) \notin get_processed_folders(master_at_start)

\* the test files of the folder that give a row with the tables loaded
FilesWithRow(name) ==
    LET f == experiment_dir[name]
        env == FolderPass[f, name].env
    IN  {i \in 1..Len(f.tests) : process_test_file(f.tests[i], env).row # NoneValue}

\* C15 as stated: a folder with at least one test file that was not in the
\* master summary at the start of the run ends saved.
C15_FolderWithTestFileEndsSaved ==
    \A name \in DOMAIN outcome :
        (NotInMaster(name) /\ experiment_dir[name].tests # <<>>) =>
            outcome[name] = "saved"

\* C15, amended: a folder handled in a run comes to be saved only through
\* the loading of its tables, the finding of its test files and the
\* computing of its rows, in that order, and it ends saved exactly when at
\* least one of its test files gives a row; in a finished skip-existing run
\* the folders not handled are those of the master summary.
C15_FolderSavedExactlyWithARow ==
    /\ \A name \in DOMAIN outcome :
           LET f == experiment_dir[name]
               pass == FolderPass[f, name]
           IN  /\ outcome[name] = "saved" <=> pass.stage = "Saved"
               /\ pass.stage = "Saved" <=>
                      (pass.env # EmptyDict /\ f.tests # <<>> /\ FilesWithRow(name) # {})
               /\ pass.stage = "TestFilesFound" <=>
                      (pass.env # EmptyDict /\ f.tests # <<>> /\ FilesWithRow(name) = {})
               /\ pass.stage = "EnvironmentLoaded" <=>
                      (pass.env # EmptyDict /\ f.tests = <<>>)
               /\ pass.stage = "Discovered" <=> pass.env = EmptyDict
               /\ pass.stage = "Saved" <=> pass.summary # NoneValue
    /\ (ended = "finished" /\ skip_existing) =>
           \A name \in DOMAIN experiment_dir :
               name \notin DOMAIN outcome <=> ~NotInMaster(name)

\* in one run a folder was saved and another, with a test file and not in
\* the master summary, was not
C15_SavedAndUnsavedFolders ==
    /\ ended = "finished"
    /\ \E name \in DOMAIN outcome : outcome[name] = "saved"
    /\ \E name \in DOMAIN outcome :
           /\ outcome[name] = "skipped"
           /\ NotInMaster(name)
           /\ experiment_dir[name].tests # <<>>
           /\ FolderPass[experiment_dir[name], name].stage = "TestFilesFound"

\* the folders that the loop of the run has handled so far, in order
Handled == SubSeq(selected, 1, Len(selected) - Len(folders_to_process))

\* the names of the test files of a table's rows, in row order
FilesOfRows(rows) == [i \in 1..Len(rows) |-> rows[i].measurement_file]

\* C16 as stated: a folder that was saved has exactly one row for each test
\* file found in it.
C16_SavedFolderHasEveryTestFile ==
    \A name \in DOMAIN outcome :
        outcome[name] = "saved" =>
            LET f == experiment_dir[name]
                rows == FolderPass[f, name].df.rows
            IN  FilesOfRows(rows) = [i \in 1..Len(f.tests) |-> Str(f.tests[i].name)]

\* C16, amended: a folder that was saved has exactly one row, complete and
\* with the folder's name, for each of its test files that gave a row, in
\* the order of the files, and none for the others; the same rows are in
\* its folder summary and in the tables collected for the master summary;
\* a folder that was not saved has no folder summary and adds no row.
C16_SavedFolderHasRowsOfFilesThatGaveOne ==
    /\ \A name \in DOMAIN outcome :
           LET f == experiment_dir[name]
               pass == FolderPass[f, name]
               gave == SelectSeq(f.tests,
                                 LAMBDA t : process_test_file(t, pass.env).row # NoneValue)
           IN  /\ pass.summary = pass.df
               /\ outcome[name] = "skipped" => pass.df = NoneValue
               /\ outcome[name] = "saved" =>
                      /\ Len(pass.df.rows) = Len(gave)
                      /\ \A i \in 1..Len(gave) :
                             pass.df.rows[i] =
                                 Update(process_test_file(gave[i], pass.env).row,
                                        [experiment_folder |-> Str(name)])
    /\ pc = "loop" =>
           all_results =
               existing_df \o
                   Concat([i \in 1..Len(Handled) |->
                              LET df == FolderPass[experiment_dir[Handled[i]], Handled[i]].df
                              IN  IF df = NoneValue THEN <<>> ELSE df.rows])

\* a folder with two test files of which one gave a row was saved, and the
\* run has written the master summary with that row
C16_FolderSavedWithOneOfTwoRows ==
    /\ ended = "finished"
    /\ \E name \in DOMAIN outcome :
           /\ outcome[name] = "saved"
           /\ Len(experiment_dir[name].tests) = 2
           /\ Len(FolderPass[experiment_dir[name], name].df.rows) = 1
           /\ name \in {RowsOf(master_csv)[i].experiment_folder :
                            i \in 1..Len(RowsOf(master_csv))}

----------------------------------------------------------------------------
(* Claims about runs that skip the folders of the master summary (SpecRun) *)

\* every run so far was started with skip_existing = True
OnlySkipRuns == \A i \in 1..Len(modes) : modes[i]

\* no two rows of the table have the same (experiment_folder, measurement_file)
UniqueKeys(rows) ==
    \A i, j \in 1..Len(rows) : KeyOf(rows[i]) = KeyOf(rows[j]) => i = j

\* C17: after any number of runs, all with skip-existing enabled, the master
\* summary on disk holds no two rows with the same (experiment_folder,
\* measurement_file) key.
C17_MasterKeysStayUnique ==
    (OnlySkipRuns /\ master_csv # NoneValue) => UniqueKeys(master_csv.rows)

\* the folder names of the rows that the master summary held on disk when
\* the run began
FoldersWithRows(master) ==
    {RowsOf(master)[i].experiment_folder : i \in 1..Len(RowsOf(master))}

\* C19: in a sequence of skip-existing runs, the folders of the directory
\* that a run selects for processing are exactly those for which the master
\* summary held no row when the run began: a folder with a persisted row is
\* never selected again, a folder without one is selected in every run.
C19_SelectedExactlyWithoutPersistedRow ==
    (modes # <<>> /\ OnlySkipRuns /\ ended # "raised") =>
        \A name \in DOMAIN experiment_dir :
            name \in Range(selected) <=> name \notin FoldersWithRows(master_at_start)

====
